---- MODULE Spec2Model ----
(***************************************************************************)
(* Utility Pro: the background task core of src/worker.py.                 *)
(*                                                                         *)
(* One GUI ("main") thread owns the TaskManager and is the Caller; every   *)
(* accepted request creates a worker (PDFWorker or ImageWorker, a QThread) *)
(* whose run() executes on its own thread.  Worker signals are emitted on  *)
(* the worker thread and connected to receivers living in the main thread, *)
(* so Qt queues them: they sit in the main thread's event queue (FIFO)     *)
(* until the main thread returns to an event loop.  The TaskManager's own  *)
(* signals are emitted in the main thread and reach the observers          *)
(* synchronously, inside the emit.                                         *)
(***************************************************************************)
EXTENDS Integers, Sequences, FiniteSets, TLC

\* Number of worker objects alive at once: a worker lives while the
\* TaskManager references it, its thread runs, or a signal of it is pending.
\* The number of requests in a run is unbounded.
MaxTasks == 2
\* Longest input_files list of a batch request.
MaxFiles == 2
\* Deepest nesting of finished handlers (an observer of task_finished that
\* runs an event loop or calls back into the TaskManager before returning).
MaxDepth == 2

\* Length of the long batch of the one-task-at-a-time specification: the
\* first length at which int(1 / total_files * 80) is 0.
MaxBatch == 81

\* Most pages of an input document of shuffle and custom_merge
MaxPages == 5
\* Longest page_sequence of a shuffle request (the full reversal apart)
MaxSeq == 2

Workers == 1..MaxTasks

\* current_worker = None
None == 0

VARIABLES
    is_running,      \* TaskManager.is_running
    current_worker,  \* TaskManager.current_worker: None or a worker id
    workers,         \* worker id -> the worker object and its thread's position
    queue,           \* worker signals posted to the main thread, not yet delivered
    stack,           \* _on_task_finished activations suspended in task_finished.emit
    mainpc,          \* "idle", or the wait() the main thread is blocked in
    log,             \* worker id -> the notifications delivered to the observers
                     \* for that worker's task, in order
    last             \* the Caller's most recent call of a TaskManager entry point

vars == <<is_running, current_worker, workers, queue, stack, mainpc, log, last>>

----------------------------------------------------------------------------
(* The operations of PDFWorker.run and ImageWorker.run *)

PdfSingleOps == {"merge", "custom_merge", "shuffle", "convert_to_word",
                 "convert_to_pages", "pdf_to_images"}

PdfBatchOps == {"split"}

ImageSingleOps == {"images_to_pdf"}

ImageBatchOps == {"resize", "convert_format", "rotate", "apply_filter"}

\* The branch of run() an operation name selects, per worker class; a name
\* the class has no branch for falls through to the terminal emission.
IsSingle(kind, op) ==
    \/ kind = "pdf" /\ op \in PdfSingleOps
    \/ kind = "image" /\ op \in ImageSingleOps

IsBatch(kind, op) ==
    \/ kind = "pdf" /\ op \in PdfBatchOps
    \/ kind = "image" /\ op \in ImageBatchOps

SuccessMessage(kind, op) ==
    CASE kind = "pdf" /\ op = "merge" -> "PDFs merged successfully"
      [] kind = "pdf" /\ op = "custom_merge" -> "Custom merge completed"
      [] kind = "pdf" /\ op = "split" -> "PDFs split successfully"
      [] kind = "pdf" /\ op = "shuffle" -> "Pages shuffled successfully"
      [] kind = "pdf" /\ op = "convert_to_word" -> "Converted to Word successfully"
      [] kind = "pdf" /\ op = "convert_to_pages" -> "Converted to Pages successfully"
      [] kind = "pdf" /\ op = "pdf_to_images" -> "PDF converted to images"
      [] kind = "image" /\ op = "images_to_pdf" -> "Images converted to PDF"
      [] kind = "image" /\ op = "resize" -> "Images resized successfully"
      [] kind = "image" /\ op = "convert_format" -> "Images converted successfully"
      [] kind = "image" /\ op = "rotate" -> "Images rotated successfully"
      [] kind = "image" /\ op = "apply_filter" -> "Filter applied successfully"
      [] OTHER -> ""

\* A failure that says nothing
FailureMessage_Blank(kind, op) == ""

FailureMessage(kind, op) ==
    CASE kind = "pdf" /\ op = "merge" -> "Failed to merge PDFs"
      [] kind = "pdf" /\ op = "custom_merge" -> "Failed to perform custom merge"
      [] kind = "pdf" /\ op = "split" -> "Failed to split PDFs"
      [] kind = "pdf" /\ op = "shuffle" -> "Failed to shuffle pages"
      [] kind = "pdf" /\ op = "convert_to_word" -> "Failed to convert to Word"
      [] kind = "pdf" /\ op = "convert_to_pages" -> "Failed to convert to Pages"
      [] kind = "pdf" /\ op = "pdf_to_images" -> "Failed to convert PDF to images"
      [] kind = "image" /\ op = "images_to_pdf" -> "Failed to convert images to PDF"
      [] kind = "image" /\ op = "resize" -> "Failed to resize images"
      [] kind = "image" /\ op = "convert_format" -> "Failed to convert images"
      [] kind = "image" /\ op = "rotate" -> "Failed to rotate images"
      [] kind = "image" /\ op = "apply_filter" -> "Failed to apply filter"
      [] OTHER -> ""

\* A message that ignores the result
Message_AlwaysSuccess(kind, op, success) == SuccessMessage(kind, op)

\* message = "<success text>" if success else "<failure text>"
Message(kind, op, success) ==
    IF success THEN SuccessMessage(kind, op) ELSE FailureMessage(kind, op)

\* error_msg = f"Error in PDF operation: {str(e)}"
ErrorMessage(kind) ==
    IF kind = "pdf" THEN "Error in PDF operation" ELSE "Error in image operation"

\* progress = round((i + 1) / total_files * 80) + 10, halves rounded up
BatchProgress_Rounded(i, total_files) ==
    (((i + 1) * 160 + total_files) \div (2 * total_files)) + 10

\* A percentage of the files left instead of the files done
BatchProgress_Countdown(i, total_files) ==
    (((total_files - i) * 80) \div total_files) + 10

\* progress = int((i + 1) / total_files * 80) + 10
BatchProgress(i, total_files) == (((i + 1) * 80) \div total_files) + 10

----------------------------------------------------------------------------
(* Signals *)

Sig(w, sig, n, ok, msg) == [task |-> w, sig |-> sig, n |-> n, ok |-> ok, msg |-> msg]

ProgressSig(w, n) == Sig(w, "progress", n, FALSE, "")

FinishedSig(w, ok, msg) == Sig(w, "finished", 0, ok, msg)

ErrorSig(w, msg) == Sig(w, "error", 0, FALSE, msg)

StartedSig(w, op) == Sig(w, "started", 0, FALSE, op)

----------------------------------------------------------------------------
(* The requests the Caller issues in this specification *)

\* The kwargs a branch of run() reads by subscript (self.kwargs['...']); the
\* ones read with .get() have defaults and are not listed.
SubscriptKeys(kind, op) ==
    CASE kind = "pdf" /\ op \in {"merge", "convert_to_word", "convert_to_pages"} ->
            {"input_files", "output_path"}
      [] kind = "pdf" /\ op = "custom_merge" -> {"merge_instructions", "output_path"}
      [] kind = "pdf" /\ op = "split" -> {"input_files", "output_dir"}
      [] kind = "pdf" /\ op = "shuffle" -> {"input_file", "output_path", "page_sequence"}
      [] kind = "pdf" /\ op = "pdf_to_images" -> {"input_files", "output_dir"}
      [] kind = "image" /\ op = "images_to_pdf" -> {"input_files", "output_path"}
      [] kind = "image" /\ op = "resize" -> {"input_files", "output_files", "width", "height"}
      [] kind = "image" /\ op = "convert_format" ->
            {"input_files", "output_files", "target_format"}
      [] kind = "image" /\ op = "rotate" -> {"input_files", "output_files", "angle"}
      [] kind = "image" /\ op = "apply_filter" ->
            {"input_files", "output_files", "filter_type"}
      [] OTHER -> {}

\* kind: the entry point (start_pdf_task / start_image_task); n: len(input_files);
\* nout: len(output_files); missing: a kwarg the Caller left out, or "none".
Requests ==
    [kind : {"pdf"}, operation : {"merge"}, n : {1}, nout : {0},
     missing : {"none", "output_path"}]
    \cup {[kind |-> "image", operation |-> "resize", n |-> k, nout |-> k,
           missing |-> "none"] : k \in 1..MaxFiles}

\* No file written
NoOutput == [written |-> FALSE, order |-> <<>>, dpi |-> 0, parsed |-> <<>>]

\* What an external call of src/core.py works on, where the model computes
\* the call: the kwargs page_sequence and (of the one merge instruction)
\* pages, the page count of the input document, whether the input file
\* exists, whether an 'all' instruction for another file precedes the merge
\* instruction, the host platform, the kwarg quality_preset ("" if the
\* request has none), and what the call leaves: whether the output was
\* written, its pages in order, the resolution of rendered images, and the
\* list _parse_page_range returned to the call.
NoExt ==
    [page_sequence |-> <<>>, pages |-> <<>>, total_pages |-> 0, exists |-> FALSE,
     lead |-> FALSE, platform |-> "", quality_preset |-> "", out |-> NoOutput]

\* A worker object that takes over the flag of the worker it replaces
NewWorker_KeepsFlag(req) ==
    [kind |-> req.kind, operation |-> req.operation, n |-> req.n, nout |-> req.nout,
     missing |-> req.missing,
     pc |-> "start", i |-> 0, success |-> FALSE, calls |-> 0,
     _is_cancelled |-> (current_worker # None /\ workers[current_worker]._is_cancelled),
     ext |-> IF "ext" \in DOMAIN req THEN req.ext ELSE NoExt]

\* A worker object: __init__ stores operation and kwargs, _is_cancelled = False.
\* pc is the position of the worker's thread in run(); i the loop index;
\* calls the number of external processing calls begun.
NewWorker(req) ==
    [kind |-> req.kind, operation |-> req.operation, n |-> req.n, nout |-> req.nout,
     missing |-> req.missing,
     pc |-> "start", i |-> 0, success |-> FALSE, calls |-> 0,
     _is_cancelled |-> FALSE,
     ext |-> IF "ext" \in DOMAIN req THEN req.ext ELSE NoExt]

\* A worker id no request has used yet.
NoWorker ==
    [kind |-> "none", operation |-> "", n |-> 0, nout |-> 0, missing |-> "none",
     pc |-> "none", i |-> 0, success |-> FALSE, calls |-> 0,
     _is_cancelled |-> FALSE, ext |-> NoExt]

NoCall == [op |-> "none", running |-> FALSE, result |-> FALSE, seq |-> 0]

Init ==
    /\ is_running = FALSE
    /\ current_worker = None
    /\ workers = [w \in Workers |-> NoWorker]
    /\ queue = <<>>
    /\ stack = <<>>
    /\ mainpc = "idle"
    /\ log = [w \in Workers |-> <<>>]
    /\ last = NoCall

----------------------------------------------------------------------------
(* The worker thread: PDFWorker.run / ImageWorker.run, one step per          *)
(* flag read, signal emission, external call begin and external call return *)

\* A worker object nothing refers to any more: not current_worker, its thread
\* finished, no signal of it pending, no handler of its finished signal active.
Unreferenced(w) ==
    /\ workers[w].pc = "done"
    /\ w # current_worker
    /\ \A k \in DOMAIN queue : queue[k].task # w
    /\ \A k \in DOMAIN stack : stack[k] # w

\* Released objects are gone before anything else happens.
Collected == \A w \in Workers : ~Unreferenced(w)

\* The worker's thread is at position pc of run()
At(w, pc) == Collected /\ workers[w].pc = pc

\* The main thread is at position pc
MainAt(pc) == Collected /\ mainpc = pc

mainVars == <<is_running, current_worker, stack, mainpc, log, last>>

\* A worker between the start and the end of run() (its thread started)
InRun(w) == workers[w].pc \notin {"none", "done"}

\* A run() that does not look at the flag before it starts
RunStart_IgnoresFlag(w) ==
    /\ At(w, "start")
    /\ workers' = [workers EXCEPT ![w].pc = "emit10"]
    /\ UNCHANGED <<queue, is_running, current_worker, stack, mainpc, log, last>>

\* if self._is_cancelled: return
RunStart(w) ==
    /\ At(w, "start")
    /\ workers' = [workers EXCEPT
                     ![w].pc = IF workers[w]._is_cancelled THEN "ret" ELSE "emit10"]
    /\ UNCHANGED <<queue, mainVars>>

\* An emission that blocks until the main thread takes the signal
EmitStartProgress_Blocking(w) ==
    /\ At(w, "emit10")
    /\ mainpc = "idle"
    /\ queue' = Append(queue, ProgressSig(w, 10))
    /\ workers' = [workers EXCEPT ![w].pc = "dispatch"]
    /\ UNCHANGED <<is_running, current_worker, stack, mainpc, log, last>>

\* self.signals.progress.emit(10)
EmitStartProgress(w) ==
    /\ At(w, "emit10")
    /\ queue' = Append(queue, ProgressSig(w, 10))
    /\ workers' = [workers EXCEPT ![w].pc = "dispatch"]
    /\ UNCHANGED mainVars

\* The if/elif chain on self.operation. A single-call branch evaluates its
\* arguments (KeyError on a missing kwarg) and begins its one external call;
\* a batch branch sets success = True and reads len(self.kwargs['input_files']);
\* an operation with no branch falls through.
Dispatch(w) ==
    LET wk == workers[w] IN
    /\ At(w, "dispatch")
    /\ workers' = [workers EXCEPT ![w] =
          IF IsSingle(wk.kind, wk.operation)
          THEN IF wk.missing \in SubscriptKeys(wk.kind, wk.operation)
               THEN [wk EXCEPT !.pc = "except"]
               ELSE [wk EXCEPT !.pc = "incall", !.calls = wk.calls + 1]
          ELSE IF IsBatch(wk.kind, wk.operation)
          THEN IF wk.missing = "input_files"
               THEN [wk EXCEPT !.pc = "except", !.success = TRUE]
               ELSE [wk EXCEPT !.pc = "loop", !.success = TRUE, !.i = 0]
          ELSE [wk EXCEPT !.pc = "final"]]
    /\ UNCHANGED <<queue, mainVars>>

\* A loop that runs its body once before it looks at the list
LoopCheck_AtLeastOnce(w) ==
    /\ At(w, "loop")
    /\ workers' = [workers EXCEPT ![w].pc =
          IF workers[w].i >= workers[w].n /\ workers[w].i > 0 THEN "final"
          ELSE IF workers[w]._is_cancelled THEN "ret"
          ELSE "call"]
    /\ UNCHANGED <<queue, is_running, current_worker, stack, mainpc, log, last>>

\* A loop that does not look at the flag between files
LoopCheck_IgnoresFlag(w) ==
    /\ At(w, "loop")
    /\ workers' = [workers EXCEPT ![w].pc =
          IF workers[w].i >= workers[w].n THEN "final" ELSE "call"]
    /\ UNCHANGED <<queue, is_running, current_worker, stack, mainpc, log, last>>

\* for i, file in enumerate(...): if self._is_cancelled: return
LoopCheck(w) ==
    LET wk == workers[w] IN
    /\ At(w, "loop")
    /\ workers' = [workers EXCEPT ![w].pc =
          IF wk.i >= wk.n THEN "final"
          ELSE IF wk._is_cancelled THEN "ret"
          ELSE "call"]
    /\ UNCHANGED <<queue, mainVars>>

\* Per-file arguments whose kwargs all have defaults
PerFileArgsRaise_OnlyLists(wk) == wk.kind = "image" /\ wk.i >= wk.nout

\* Per-file arguments with an output name for every index
PerFileArgsRaise_KeysOnly(wk) == wk.missing \in SubscriptKeys(wk.kind, wk.operation)

\* Evaluating the arguments of a per-file call raises: a missing kwarg
\* (KeyError), or self.kwargs['output_files'][i] past the end (IndexError).
PerFileArgsRaise(wk) ==
    \/ wk.missing \in SubscriptKeys(wk.kind, wk.operation)
    \/ wk.kind = "image" /\ wk.i >= wk.nout

\* file_success = Processor.<op>(file, ...): the call begins
BeginFileCall(w) ==
    LET wk == workers[w] IN
    /\ At(w, "call")
    /\ workers' = [workers EXCEPT ![w] =
          IF PerFileArgsRaise(wk)
          THEN [wk EXCEPT !.pc = "except"]
          ELSE [wk EXCEPT !.pc = "incall", !.calls = wk.calls + 1]]
    /\ UNCHANGED <<queue, mainVars>>

\* A batch that goes on to the next file after a failed one
CallReturns_ContinuesAfterFailure(w, outcome) ==
    LET wk == workers[w] IN
    /\ At(w, "incall")
    /\ workers' = [workers EXCEPT ![w] =
          IF outcome = "raise" THEN [wk EXCEPT !.pc = "except"]
          ELSE IF IsSingle(wk.kind, wk.operation)
          THEN [wk EXCEPT !.pc = "final", !.success = (outcome = "true")]
          ELSE IF outcome = "true" THEN [wk EXCEPT !.pc = "emitprog"]
          ELSE [wk EXCEPT !.pc = "emitprog", !.success = FALSE]]
    /\ UNCHANGED <<queue, is_running, current_worker, stack, mainpc, log, last>>

\* The external call in flight returns True, returns False, or raises.
CallReturns(w, outcome) ==
    LET wk == workers[w] IN
    /\ At(w, "incall")
    /\ workers' = [workers EXCEPT ![w] =
          IF outcome = "raise" THEN [wk EXCEPT !.pc = "except"]
          ELSE IF IsSingle(wk.kind, wk.operation)
          THEN [wk EXCEPT !.pc = "final", !.success = (outcome = "true")]
          ELSE IF outcome = "true" THEN [wk EXCEPT !.pc = "emitprog"]
          ELSE [wk EXCEPT !.pc = "final", !.success = FALSE]]
    /\ UNCHANGED <<queue, mainVars>>

\* A batch that reports no progress per file
EmitBatchProgress_Silent(w) ==
    /\ At(w, "emitprog")
    /\ workers' = [workers EXCEPT ![w].pc = "loop", ![w].i = workers[w].i + 1]
    /\ UNCHANGED <<queue, is_running, current_worker, stack, mainpc, log, last>>

\* progress = int((i + 1) / total_files * 80) + 10; self.signals.progress.emit(progress)
EmitBatchProgress(w) ==
    LET wk == workers[w] IN
    /\ At(w, "emitprog")
    /\ queue' = Append(queue, ProgressSig(w, BatchProgress(wk.i, wk.n)))
    /\ workers' = [workers EXCEPT ![w].pc = "loop", ![w].i = wk.i + 1]
    /\ UNCHANGED mainVars

\* A terminal emission that does not look at the flag
FinalCheck_IgnoresFlag(w) ==
    /\ At(w, "final")
    /\ workers' = [workers EXCEPT ![w].pc = "emit100"]
    /\ UNCHANGED <<queue, is_running, current_worker, stack, mainpc, log, last>>

\* A terminal emission that forgets progress(100)
FinalCheck_NoFinalProgress(w) ==
    /\ At(w, "final")
    /\ workers' = [workers EXCEPT
                     ![w].pc = IF workers[w]._is_cancelled THEN "ret" ELSE "emitfin"]
    /\ UNCHANGED <<queue, is_running, current_worker, stack, mainpc, log, last>>

\* if not self._is_cancelled:      (before the terminal emission)
FinalCheck(w) ==
    /\ At(w, "final")
    /\ workers' = [workers EXCEPT
                     ![w].pc = IF workers[w]._is_cancelled THEN "ret" ELSE "emit100"]
    /\ UNCHANGED <<queue, mainVars>>

\* A terminal emission whose progress(100) never leaves the worker
EmitFinalProgress_Dropped(w) ==
    /\ At(w, "emit100")
    /\ workers' = [workers EXCEPT ![w].pc = "emitfin"]
    /\ UNCHANGED <<queue, is_running, current_worker, stack, mainpc, log, last>>

\* self.signals.progress.emit(100)
EmitFinalProgress(w) ==
    /\ At(w, "emit100")
    /\ queue' = Append(queue, ProgressSig(w, 100))
    /\ workers' = [workers EXCEPT ![w].pc = "emitfin"]
    /\ UNCHANGED mainVars

\* A finished emission after which run() still takes the except branch
EmitFinished_ThenRaises(w) ==
    LET wk == workers[w] IN
    /\ At(w, "emitfin")
    /\ queue' = Append(queue,
                  FinishedSig(w, wk.success, Message(wk.kind, wk.operation, wk.success)))
    /\ workers' = [workers EXCEPT ![w].pc = "except"]
    /\ UNCHANGED <<is_running, current_worker, stack, mainpc, log, last>>

\* self.signals.finished.emit(success, message)
EmitFinished(w) ==
    LET wk == workers[w] IN
    /\ At(w, "emitfin")
    /\ queue' = Append(queue,
                  FinishedSig(w, wk.success, Message(wk.kind, wk.operation, wk.success)))
    /\ workers' = [workers EXCEPT ![w].pc = "ret"]
    /\ UNCHANGED mainVars

\* An except branch that swallows every fault
ExceptCheck_Swallows(w) ==
    /\ At(w, "except")
    /\ workers' = [workers EXCEPT ![w].pc = "ret"]
    /\ UNCHANGED <<queue, is_running, current_worker, stack, mainpc, log, last>>

\* An except branch that reports every fault
ExceptCheck_AlwaysEmits(w) ==
    /\ At(w, "except")
    /\ workers' = [workers EXCEPT ![w].pc = "emiterr"]
    /\ UNCHANGED <<queue, is_running, current_worker, stack, mainpc, log, last>>

\* except Exception: ... if not self._is_cancelled:
ExceptCheck(w) ==
    /\ At(w, "except")
    /\ workers' = [workers EXCEPT
                     ![w].pc = IF workers[w]._is_cancelled THEN "ret" ELSE "emiterr"]
    /\ UNCHANGED <<queue, mainVars>>

\* A fault reported on the finished channel
EmitError_AsFinished(w) ==
    /\ At(w, "emiterr")
    /\ queue' = Append(queue, FinishedSig(w, FALSE, ErrorMessage(workers[w].kind)))
    /\ workers' = [workers EXCEPT ![w].pc = "ret"]
    /\ UNCHANGED <<is_running, current_worker, stack, mainpc, log, last>>

\* self.signals.error.emit(error_msg)
EmitError(w) ==
    /\ At(w, "emiterr")
    /\ queue' = Append(queue, ErrorSig(w, ErrorMessage(workers[w].kind)))
    /\ workers' = [workers EXCEPT ![w].pc = "ret"]
    /\ UNCHANGED mainVars

\* run() returns and the thread finishes
RunReturns(w) ==
    /\ At(w, "ret")
    /\ workers' = [workers EXCEPT ![w].pc = "done"]
    /\ UNCHANGED <<queue, mainVars>>

----------------------------------------------------------------------------
(* The main thread: the Caller's calls of the TaskManager and the delivery   *)
(* of queued worker signals                                                  *)

\* The entry point's name for a request
EntryPoint(req) == IF req.kind = "pdf" THEN "start_pdf_task" ELSE "start_image_task"

StartCalls == {"start_pdf_task", "start_image_task"}

\* What the Caller's call saw and got: is_running at the call, the value
\* returned (start_*_task), and a bit that flips with every call.
CallRecord(op, result) ==
    [op |-> op, running |-> is_running, result |-> result, seq |-> 1 - last.seq]

\* A guard that asks the thread instead of the flag: busy only while the
\* current worker's thread is still executing.
Busy_WorkerAlive == current_worker # None /\ workers[current_worker].pc \notin {"none", "done"}

\* if self.is_running: return False
Busy == is_running

\* An id for the next worker object
Free == {w \in Workers : workers[w].pc = "none"}

NewId == CHOOSE w \in Free : \A v \in Free : w <= v

\* start_pdf_task / start_image_task: reject while busy; otherwise construct the
\* worker, connect its signals, start its thread, set is_running, emit
\* task_started (observers run inside the emit) and return True.
StartTask(req) ==
    /\ MainAt("idle")
    /\ IF Busy
       THEN /\ last' = CallRecord(EntryPoint(req), FALSE)
            /\ UNCHANGED <<is_running, current_worker, workers, queue,
                           stack, mainpc, log>>
       ELSE /\ Free # {}
            /\ current_worker' = NewId
            /\ workers' = [workers EXCEPT ![NewId] = NewWorker(req)]
            /\ is_running' = TRUE
            /\ log' = [log EXCEPT ![NewId] = <<StartedSig(NewId, req.operation)>>]
            /\ last' = CallRecord(EntryPoint(req), TRUE)
            /\ UNCHANGED <<queue, stack, mainpc>>

start_pdf_task(req) == req.kind = "pdf" /\ StartTask(req)

start_image_task(req) == req.kind = "image" /\ StartTask(req)

\* A guard that looks at the reference only
CancelApplies_AnyWorker == current_worker # None

\* if self.current_worker and self.is_running:
CancelApplies == current_worker # None /\ is_running

\* cancel_current_task up to the blocking wait(): worker.cancel() sets the flag,
\* quit() has no effect on a thread that runs no event loop.
cancel_current_task ==
    /\ MainAt("idle")
    /\ last' = CallRecord("cancel_current_task", FALSE)
    /\ IF CancelApplies
       THEN /\ workers' = [workers EXCEPT ![current_worker]._is_cancelled = TRUE]
            /\ mainpc' = "cancel_wait"
       ELSE UNCHANGED <<workers, mainpc>>
    /\ UNCHANGED <<is_running, current_worker, queue, stack, log>>

\* A wait() that returns without joining the thread
WaitOver_NoJoin(w) == workers[w].pc # "none"

\* QThread.wait() returns once the thread has finished
WaitOver(w) == workers[w].pc = "done"

\* cancel_current_task after wait(): self.is_running = False
CancelReturns ==
    /\ MainAt("cancel_wait")
    /\ WaitOver(current_worker)
    /\ is_running' = FALSE
    /\ mainpc' = "idle"
    /\ UNCHANGED <<current_worker, workers, queue, stack, log, last>>

\* The main thread is in an event loop (the application's, or one an observer
\* runs inside a handler) and the next posted signal is due.
CanDeliver(sig) ==
    /\ MainAt("idle")
    /\ queue # <<>>
    /\ Head(queue).sig = sig

\* A relay that notifies the observers twice
Delivered_Twice(s) == [log EXCEPT ![s.task] = Append(Append(@, s), s)]

\* An observer receives the notification relayed for signal s
Delivered(s) == [log EXCEPT ![s.task] = Append(@, s)]

\* signals.progress -> task_progress.emit
DeliverProgress ==
    /\ CanDeliver("progress")
    /\ log' = Delivered(Head(queue))
    /\ queue' = Tail(queue)
    /\ UNCHANGED <<is_running, current_worker, workers, stack, mainpc, last>>

\* signals.error -> task_error.emit
DeliverError ==
    /\ CanDeliver("error")
    /\ log' = Delivered(Head(queue))
    /\ queue' = Tail(queue)
    /\ UNCHANGED <<is_running, current_worker, workers, stack, mainpc, last>>

\* signals.finished -> _on_task_finished, up to and into task_finished.emit:
\* self.is_running = False; self.task_finished.emit(success, message).
\* The activation stays on the stack while the observers run.
DeliverFinished ==
    /\ CanDeliver("finished")
    /\ Len(stack) < MaxDepth
    /\ is_running' = FALSE
    /\ log' = Delivered(Head(queue))
    /\ stack' = Append(stack, Head(queue).task)
    /\ queue' = Tail(queue)
    /\ UNCHANGED <<current_worker, workers, mainpc, last>>

\* The observers of task_finished return into _on_task_finished:
\* if self.current_worker: quit(); wait()  -- else the handler is over.
ObserverReturns ==
    /\ MainAt("idle")
    /\ stack # <<>>
    /\ IF current_worker # None
       THEN mainpc' = "fin_wait" /\ UNCHANGED stack
       ELSE mainpc' = "idle" /\ stack' = SubSeq(stack, 1, Len(stack) - 1)
    /\ UNCHANGED <<is_running, current_worker, workers, queue, log, last>>

\* _on_task_finished after wait(): self.current_worker = None
FinishedHandlerReturns ==
    /\ MainAt("fin_wait")
    /\ WaitOver(current_worker)
    /\ current_worker' = None
    /\ mainpc' = "idle"
    /\ stack' = SubSeq(stack, 1, Len(stack) - 1)
    /\ UNCHANGED <<is_running, workers, queue, log, last>>

\* The object is released (current_worker was reassigned or set to None)
\* and the record of its task with it.
Release(w) ==
    /\ Unreferenced(w)
    /\ workers' = [workers EXCEPT ![w] = NoWorker]
    /\ log' = [log EXCEPT ![w] = <<>>]
    /\ UNCHANGED <<is_running, current_worker, queue, stack, mainpc, last>>

Next ==
    \/ \E req \in Requests : start_pdf_task(req)
    \/ \E req \in Requests : start_image_task(req)
    \/ cancel_current_task
    \/ CancelReturns
    \/ DeliverProgress
    \/ DeliverError
    \/ DeliverFinished
    \/ ObserverReturns
    \/ FinishedHandlerReturns
    \/ \E w \in Workers : Release(w)
    \/ \E w \in Workers : RunStart(w)
    \/ \E w \in Workers : EmitStartProgress(w)
    \/ \E w \in Workers : Dispatch(w)
    \/ \E w \in Workers : LoopCheck(w)
    \/ \E w \in Workers : BeginFileCall(w)
    \/ \E w \in Workers, outcome \in {"true", "false", "raise"} : CallReturns(w, outcome)
    \/ \E w \in Workers : EmitBatchProgress(w)
    \/ \E w \in Workers : FinalCheck(w)
    \/ \E w \in Workers : EmitFinalProgress(w)
    \/ \E w \in Workers : EmitFinished(w)
    \/ \E w \in Workers : ExceptCheck(w)
    \/ \E w \in Workers : EmitError(w)
    \/ \E w \in Workers : RunReturns(w)

Spec == Init /\ [][Next]_vars

\* The steps of worker w's thread
WorkerStep(w) ==
    \/ RunStart(w)
    \/ EmitStartProgress(w)
    \/ Dispatch(w)
    \/ LoopCheck(w)
    \/ BeginFileCall(w)
    \/ \E outcome \in {"true", "false", "raise"} : CallReturns(w, outcome)
    \/ EmitBatchProgress(w)
    \/ FinalCheck(w)
    \/ EmitFinalProgress(w)
    \/ EmitFinished(w)
    \/ ExceptCheck(w)
    \/ EmitError(w)
    \/ RunReturns(w)

\* The event loop processes the next posted event
DeliverStep ==
    \/ DeliverProgress
    \/ DeliverError
    \/ DeliverFinished

\* A wait() of the main thread returns
WaitReturns ==
    \/ CancelReturns
    \/ FinishedHandlerReturns

\* Every started thread is scheduled and every external call returns or
\* raises; a wait() on a thread that has finished returns (the main thread
\* does nothing else meanwhile); the main thread's event loop gets to every
\* posted event however often the Caller calls in between; and every
\* observer returns, whatever it calls before.
Fairness ==
    /\ \A w \in Workers : WF_vars(WorkerStep(w))
    /\ \A w \in Workers : WF_vars(Release(w))
    /\ WF_vars(WaitReturns)
    /\ SF_vars(DeliverStep)
    /\ SF_vars(ObserverReturns)

\* The requests of the fair specification: the single-call ones and the
\* batches of one file.
SmallRequests == {req \in Requests : req.n = 1}

LiveNext ==
    \/ \E req \in SmallRequests : start_pdf_task(req)
    \/ \E req \in SmallRequests : start_image_task(req)
    \/ cancel_current_task
    \/ CancelReturns
    \/ DeliverProgress
    \/ DeliverError
    \/ DeliverFinished
    \/ ObserverReturns
    \/ FinishedHandlerReturns
    \/ \E w \in Workers : Release(w)
    \/ \E w \in Workers : RunStart(w)
    \/ \E w \in Workers : EmitStartProgress(w)
    \/ \E w \in Workers : Dispatch(w)
    \/ \E w \in Workers : LoopCheck(w)
    \/ \E w \in Workers : BeginFileCall(w)
    \/ \E w \in Workers, outcome \in {"true", "false", "raise"} : CallReturns(w, outcome)
    \/ \E w \in Workers : EmitBatchProgress(w)
    \/ \E w \in Workers : FinalCheck(w)
    \/ \E w \in Workers : EmitFinalProgress(w)
    \/ \E w \in Workers : EmitFinished(w)
    \/ \E w \in Workers : ExceptCheck(w)
    \/ \E w \in Workers : EmitError(w)
    \/ \E w \in Workers : RunReturns(w)

LiveSpec == Init /\ [][LiveNext]_vars /\ Fairness

----------------------------------------------------------------------------
(* One task at a time: a Caller that requests the next task only when the    *)
(* previous one has run its course and never cancels, with every operation   *)
(* of both worker classes and batches of up to MaxBatch files.               *)

\* Nothing is left to happen unless the Caller calls: every thread has
\* finished, every signal is delivered, every handler has returned.
Quiet ==
    /\ mainpc = "idle"
    /\ stack = <<>>
    /\ queue = <<>>
    /\ \A w \in Workers : ~InRun(w)

\* Every single-call operation, every batch operation on 1..MaxFiles files,
\* and resize on MaxBatch files, all with complete kwargs.
TaskRequests ==
    {[kind |-> "pdf", operation |-> op, n |-> 1, nout |-> 0, missing |-> "none"] :
        op \in PdfSingleOps}
    \cup {[kind |-> "image", operation |-> op, n |-> 1, nout |-> 0, missing |-> "none"] :
        op \in ImageSingleOps}
    \cup {[kind |-> "pdf", operation |-> op, n |-> k, nout |-> 0, missing |-> "none"] :
        op \in PdfBatchOps, k \in 1..MaxFiles}
    \cup {[kind |-> "image", operation |-> op, n |-> k, nout |-> k, missing |-> "none"] :
        op \in ImageBatchOps, k \in 1..MaxFiles}
    \cup {[kind |-> "image", operation |-> "resize", n |-> MaxBatch, nout |-> MaxBatch,
           missing |-> "none"]}

\* The Caller requests a task once the previous one has run its course
RequestPdfWhenQuiet(req) == Quiet /\ start_pdf_task(req)

RequestImageWhenQuiet(req) == Quiet /\ start_image_task(req)

TaskNext ==
    \/ \E req \in TaskRequests : RequestPdfWhenQuiet(req)
    \/ \E req \in TaskRequests : RequestImageWhenQuiet(req)
    \/ DeliverProgress
    \/ DeliverError
    \/ DeliverFinished
    \/ ObserverReturns
    \/ FinishedHandlerReturns
    \/ \E w \in Workers : Release(w)
    \/ \E w \in Workers : RunStart(w)
    \/ \E w \in Workers : EmitStartProgress(w)
    \/ \E w \in Workers : Dispatch(w)
    \/ \E w \in Workers : LoopCheck(w)
    \/ \E w \in Workers : BeginFileCall(w)
    \/ \E w \in Workers, outcome \in {"true", "false", "raise"} : CallReturns(w, outcome)
    \/ \E w \in Workers : EmitBatchProgress(w)
    \/ \E w \in Workers : FinalCheck(w)
    \/ \E w \in Workers : EmitFinalProgress(w)
    \/ \E w \in Workers : EmitFinished(w)
    \/ \E w \in Workers : ExceptCheck(w)
    \/ \E w \in Workers : EmitError(w)
    \/ \E w \in Workers : RunReturns(w)

TaskSpec == Init /\ [][TaskNext]_vars

----------------------------------------------------------------------------
(* Requests with incomplete or inconsistent kwargs, and operation names the  *)
(* worker class has no branch for, one task at a time.                       *)

\* The kwargs a branch of run() reads with self.kwargs.get(key, default)
GetKeys(kind, op) ==
    CASE kind = "pdf" /\ op = "pdf_to_images" -> {"format", "quality_preset"}
      [] kind = "image" /\ op = "resize" -> {"maintain_aspect"}
      [] OTHER -> {}

\* Every kwarg the operation's branch reads
KwargKeys(kind, op) == SubscriptKeys(kind, op) \cup GetKeys(kind, op)

\* Every operation with each of its kwargs left out in turn, or none; batches
\* of 0..MaxFiles files with 0..MaxFiles output names; and the operations of
\* one worker class requested from the other.
KwargsRequests ==
    {[kind |-> "pdf", operation |-> op, n |-> 1, nout |-> 0, missing |-> m] :
        op \in PdfSingleOps, m \in {"none", "input_files", "input_file", "output_path",
                                     "merge_instructions", "page_sequence",
                                     "output_dir", "format", "quality_preset"}}
    \cup {[kind |-> "image", operation |-> op, n |-> 1, nout |-> 0, missing |-> m] :
        op \in ImageSingleOps \cup {"merge"}, m \in {"none", "input_files", "output_path"}}
    \cup {[kind |-> "pdf", operation |-> op, n |-> k, nout |-> 0, missing |-> m] :
        op \in PdfBatchOps \cup {"resize"}, k \in 0..MaxFiles,
        m \in {"none", "input_files", "output_dir"}}
    \cup {[kind |-> "image", operation |-> op, n |-> k, nout |-> j, missing |-> m] :
        op \in ImageBatchOps, k \in 0..MaxFiles, j \in 0..MaxFiles,
        m \in {"none", "input_files", "output_files", "width", "height",
               "maintain_aspect", "target_format", "angle", "filter_type"}}

KwargsNext ==
    \/ \E req \in KwargsRequests : RequestPdfWhenQuiet(req)
    \/ \E req \in KwargsRequests : RequestImageWhenQuiet(req)
    \/ DeliverProgress
    \/ DeliverError
    \/ DeliverFinished
    \/ ObserverReturns
    \/ FinishedHandlerReturns
    \/ \E w \in Workers : Release(w)
    \/ \E w \in Workers : RunStart(w)
    \/ \E w \in Workers : EmitStartProgress(w)
    \/ \E w \in Workers : Dispatch(w)
    \/ \E w \in Workers : LoopCheck(w)
    \/ \E w \in Workers : BeginFileCall(w)
    \/ \E w \in Workers, outcome \in {"true", "false", "raise"} : CallReturns(w, outcome)
    \/ \E w \in Workers : EmitBatchProgress(w)
    \/ \E w \in Workers : FinalCheck(w)
    \/ \E w \in Workers : EmitFinalProgress(w)
    \/ \E w \in Workers : EmitFinished(w)
    \/ \E w \in Workers : ExceptCheck(w)
    \/ \E w \in Workers : EmitError(w)
    \/ \E w \in Workers : RunReturns(w)

KwargsSpec == Init /\ [][KwargsNext]_vars

----------------------------------------------------------------------------
(* The external calls of src/core.py that the claims describe, computed:     *)
(* shuffle_pages, custom_merge_pdfs with _parse_page_range, and              *)
(* convert_to_pages.  PyPDF2 is available, an existing input file is a       *)
(* readable document and the output path is writable.                        *)

\* reader.pages of a document of total pages, each page named by its
\* original 1-based position
Document(total) == [k \in 1..total |-> k]

\* reader.pages[page_num - 1]: a negative index counts from the end
PageAt(total, page_num) ==
    IF page_num >= 1 THEN Document(total)[page_num]
    ELSE Document(total)[total + page_num]

\* A validation that forgets the lower bound
ShuffleValid_UpperOnly(page_sequence, total_pages) ==
    \A k \in DOMAIN page_sequence : ~(page_sequence[k] > total_pages)

\* for page_num in page_sequence: if page_num < 1 or page_num > total_pages: return False
ShuffleValid(page_sequence, total_pages) ==
    \A k \in DOMAIN page_sequence :
        ~(page_sequence[k] < 1 \/ page_sequence[k] > total_pages)

\* PDFProcessor.shuffle_pages: False for a missing file or an invalid index;
\* otherwise the output gets reader.pages[page_num - 1] for each page_num of
\* the sequence, in that order, and nothing else.
shuffle_pages(ext) ==
    IF ~ext.exists \/ ~ShuffleValid(ext.page_sequence, ext.total_pages)
    THEN [ok |-> FALSE, out |-> NoOutput]
    ELSE [ok |-> TRUE,
          out |-> [written |-> TRUE, dpi |-> 0, parsed |-> <<>>,
                   order |-> [k \in DOMAIN ext.page_sequence |->
                                 PageAt(ext.total_pages, ext.page_sequence[k])]]]

\* A part of a page range string: the number a ("num"), the range a-b
\* ("range"), a range with nothing after the dash ("open"), a non-numeric
\* word ("word"), or the word all ("all").
Tok(t, a, b) == [t |-> t, a |-> a, b |-> b]

\* page_range == 'all'
IsAll(page_range) == page_range = << Tok("all", 0, 0) >>

\* int(...) of the part raises ValueError
RaisesValueError(tok) == tok.t \in {"word", "open", "all"}

\* The pages one part contributes: range(start, min(end + 1, total_pages + 1)),
\* or the single page if 1 <= page_num <= total_pages
PagesOfPart(tok, total_pages) ==
    IF tok.t = "range"
    THEN {q \in tok.a..tok.b : q <= total_pages}
    ELSE IF 1 <= tok.a /\ tok.a <= total_pages THEN {tok.a} ELSE {}

RECURSIVE SortedSeq(_)
\* sorted(list(set(pages)))
SortedSeq(S) ==
    IF S = {} THEN <<>>
    ELSE LET m == CHOOSE x \in S : \A y \in S : x <= y
         IN <<m>> \o SortedSeq(S \ {m})

\* PDFProcessor._parse_page_range: [] on ValueError, else the pages sorted
parse_page_range(page_range, total_pages) ==
    IF \E k \in DOMAIN page_range : RaisesValueError(page_range[k])
    THEN <<>>
    ELSE SortedSeq(UNION {PagesOfPart(page_range[k], total_pages) : k \in DOMAIN page_range})

\* What an earlier instruction {'file': other, 'pages': 'all'} for a one-page
\* file that exists has appended: that page, named 0
Lead(ext) == IF ext.lead THEN <<0>> ELSE <<>>

\* PDFProcessor.custom_merge_pdfs for the instruction {'file', 'pages'},
\* alone or after an 'all' instruction: False for a missing file; otherwise
\* the whole file for 'all', else the parsed pages if there are any
\* ("if pages:"), and the output is written and True returned.  For a parsed
\* page below 1, merger.append(file, pages=(page - 1, page)) gets a negative
\* start: the library either raises (False, nothing written) or resolves it
\* as an index from the end.
custom_merge_pdfs(ext, lib_ok) ==
    IF ~ext.exists
    THEN [ok |-> FALSE, out |-> NoOutput]
    ELSE LET pages == IF IsAll(ext.pages) THEN <<>>
                      ELSE parse_page_range(ext.pages, ext.total_pages)
         IN IF (\E k \in DOMAIN pages : pages[k] < 1) /\ (~lib_ok \/ ext.total_pages = 0)
            THEN [ok |-> FALSE, out |-> [NoOutput EXCEPT !.parsed = pages]]
            ELSE [ok |-> TRUE,
                  out |-> [written |-> TRUE, dpi |-> 0, parsed |-> pages,
                           order |-> Lead(ext) \o
                               (IF IsAll(ext.pages) THEN Document(ext.total_pages)
                                ELSE [k \in DOMAIN pages |->
                                         PageAt(ext.total_pages, pages[k])])]]

\* A conversion that tries textutil on every host
convert_to_pages_AnyHost(ext, tool_ok) ==
    [ok |-> tool_ok, out |-> [written |-> tool_ok, order |-> <<>>, dpi |-> 0, parsed |-> <<>>]]

\* PDFProcessor.convert_to_pages: on Darwin the result of textutil (a
\* CalledProcessError is caught and gives False), elsewhere False.
convert_to_pages(ext, tool_ok) ==
    IF ext.platform = "Darwin"
    THEN [ok |-> tool_ok, out |-> [written |-> tool_ok, order |-> <<>>, dpi |-> 0, parsed |-> <<>>]]
    ELSE [ok |-> FALSE, out |-> NoOutput]

\* The radio buttons of the PDF to Image page: the presets the Caller sends
CallerPresets == {"Web", "Print", "Archive"}

\* self.kwargs.get('quality_preset', 'Web')
PresetArgument(ext) == IF ext.quality_preset = "" THEN "Web" ELSE ext.quality_preset

\* dpi_x, dpi_y = quality_map.get(quality_preset, (72, 72))
QualityMap(quality_preset) ==
    CASE quality_preset = "Web" -> 72
      [] quality_preset = "Print" -> 150
      [] quality_preset = "High" -> 300
      [] OTHER -> 72

\* PDFProcessor.pdf_to_images for one input file: False if it does not
\* exist; otherwise every page is rendered at the preset's resolution.
pdf_to_images(ext) ==
    IF ~ext.exists
    THEN [ok |-> FALSE, out |-> NoOutput]
    ELSE [ok |-> TRUE,
          out |-> [written |-> TRUE, order |-> Document(ext.total_pages),
                   dpi |-> QualityMap(PresetArgument(ext)), parsed |-> <<>>]]

\* The result of the worker's external call
CoreRun(wk, tool_ok) ==
    CASE wk.operation = "shuffle" -> shuffle_pages(wk.ext)
      [] wk.operation = "custom_merge" -> custom_merge_pdfs(wk.ext, tool_ok)
      [] wk.operation = "convert_to_pages" -> convert_to_pages(wk.ext, tool_ok)
      [] wk.operation = "pdf_to_images" -> pdf_to_images(wk.ext)

\* success = PDFProcessor.<op>(...): the call in flight returns what the
\* function computes and leaves its output file
CoreCallReturns(w, tool_ok) ==
    LET wk == workers[w]
        r == CoreRun(wk, tool_ok) IN
    /\ At(w, "incall")
    /\ workers' = [workers EXCEPT ![w] =
                      [wk EXCEPT !.pc = "final", !.success = r.ok, !.ext.out = r.out]]
    /\ UNCHANGED <<queue, mainVars>>

\* M, M-1, ..., 1
Reversal(M) == [k \in 1..M |-> M + 1 - k]

\* The page sequences requested: every sequence of 1..MaxSeq indices from
\* 0..MaxPages+1, and the reversals
PageSequences ==
    UNION {[1..len -> 0..(MaxPages + 1)] : len \in 1..MaxSeq}
        \cup {Reversal(M) : M \in 1..MaxPages}

PageTokens ==
    {Tok("all", 0, 0), Tok("word", 0, 0), Tok("open", 1, 0),
     Tok("num", 1, 0), Tok("num", MaxPages + 1, 0),
     Tok("range", 0, 2), Tok("range", 1, 2), Tok("range", 2, 1),
     Tok("range", 2, MaxPages + 1)}

\* The page range strings requested: 1..MaxSeq parts
PageRanges == UNION {[1..len -> PageTokens] : len \in 1..MaxSeq}

CoreRequest(op, ext) ==
    [kind |-> "pdf", operation |-> op, n |-> 1, nout |-> 0, missing |-> "none",
     ext |-> ext]

CoreRequests ==
    {CoreRequest("shuffle", [NoExt EXCEPT !.page_sequence = sq, !.total_pages = t,
                                          !.exists = e]) :
        sq \in PageSequences, t \in 1..MaxPages, e \in BOOLEAN}
    \cup {CoreRequest("custom_merge", [NoExt EXCEPT !.pages = pr, !.total_pages = t,
                                                    !.exists = e, !.lead = l]) :
        pr \in PageRanges, t \in {0, MaxPages}, e \in BOOLEAN, l \in BOOLEAN}
    \cup {CoreRequest("convert_to_pages", [NoExt EXCEPT !.platform = h, !.exists = TRUE]) :
        h \in {"Darwin", "Linux", "Windows"}}
    \cup {CoreRequest("pdf_to_images", [NoExt EXCEPT !.quality_preset = q, !.total_pages = 1,
                                                     !.exists = e]) :
        q \in CallerPresets \cup {"High", ""}, e \in BOOLEAN}

CoreNext ==
    \/ \E req \in CoreRequests : RequestPdfWhenQuiet(req)
    \/ DeliverProgress
    \/ DeliverFinished
    \/ ObserverReturns
    \/ FinishedHandlerReturns
    \/ \E w \in Workers : Release(w)
    \/ \E w \in Workers : RunStart(w)
    \/ \E w \in Workers : EmitStartProgress(w)
    \/ \E w \in Workers : Dispatch(w)
    \/ \E w \in Workers, tool_ok \in BOOLEAN : CoreCallReturns(w, tool_ok)
    \/ \E w \in Workers : FinalCheck(w)
    \/ \E w \in Workers : EmitFinalProgress(w)
    \/ \E w \in Workers : EmitFinished(w)
    \/ \E w \in Workers : RunReturns(w)

CoreSpec == Init /\ [][CoreNext]_vars

----------------------------------------------------------------------------
(* One task at a time with cancellation: every operation, batches of         *)
(* 0..MaxFiles files and one of MaxBatch files, and a Caller that may call   *)
(* cancel_current_task at any moment.                                        *)

CancelRequests ==
    TaskRequests
    \cup {[kind |-> "pdf", operation |-> op, n |-> 0, nout |-> 0, missing |-> "none"] :
            op \in PdfBatchOps}
    \cup {[kind |-> "image", operation |-> op, n |-> 0, nout |-> 0, missing |-> "none"] :
            op \in ImageBatchOps}

CancelNext ==
    \/ \E req \in CancelRequests : RequestPdfWhenQuiet(req)
    \/ \E req \in CancelRequests : RequestImageWhenQuiet(req)
    \/ cancel_current_task
    \/ CancelReturns
    \/ DeliverProgress
    \/ DeliverError
    \/ DeliverFinished
    \/ ObserverReturns
    \/ FinishedHandlerReturns
    \/ \E w \in Workers : Release(w)
    \/ \E w \in Workers : RunStart(w)
    \/ \E w \in Workers : EmitStartProgress(w)
    \/ \E w \in Workers : Dispatch(w)
    \/ \E w \in Workers : LoopCheck(w)
    \/ \E w \in Workers : BeginFileCall(w)
    \/ \E w \in Workers, outcome \in {"true", "false", "raise"} : CallReturns(w, outcome)
    \/ \E w \in Workers : EmitBatchProgress(w)
    \/ \E w \in Workers : FinalCheck(w)
    \/ \E w \in Workers : EmitFinalProgress(w)
    \/ \E w \in Workers : EmitFinished(w)
    \/ \E w \in Workers : ExceptCheck(w)
    \/ \E w \in Workers : EmitError(w)
    \/ \E w \in Workers : RunReturns(w)

CancelSpec == Init /\ [][CancelNext]_vars

----------------------------------------------------------------------------
(* Vocabulary of the properties *)

\* A terminal notification (task_finished or task_error) has been delivered
\* to the observers for the task of worker w.
HasTerminal(w) == \E k \in DOMAIN log[w] : log[w][k].sig \in {"finished", "error"}

\* The worker objects that exist
Existing == {w \in Workers : workers[w].pc # "none"}

\* No TaskManager method is executing: the main thread is in the
\* application's event loop, outside every handler.
AtRest == mainpc = "idle" /\ stack = <<>>

\* This step is a call of a TaskManager entry point by the Caller.
CallStep == last'.seq # last.seq

StartStep == CallStep /\ last'.op \in StartCalls

CancelStep == CallStep /\ last'.op = "cancel_current_task"

\* This step delivers a notification for worker w's task to the observers.
DeliversFor(w) == Len(log'[w]) = Len(log[w]) + 1

\* The notification the step delivers
NewEntry(w) == log'[w][Len(log'[w])]

\* This step enters _on_task_finished (and reaches its task_finished.emit).
EntersFinishedHandler == Len(stack') = Len(stack) + 1

\* A signal of worker w (task_started comes from the TaskManager, not from w)
FromWorker(w, s) == s.task = w /\ s.sig # "started"

\* The signals worker w has emitted so far, in emission order: the ones
\* already relayed to the observers, then the ones still in the event queue.
Emitted(w) ==
    SelectSeq(log[w], LAMBDA s : FromWorker(w, s))
        \o SelectSeq(queue, LAMBDA s : FromWorker(w, s))

\* The positions of the terminal signals (finished, error) in a sequence
Terminals(s) == {k \in DOMAIN s : s[k].sig \in {"finished", "error"}}

----------------------------------------------------------------------------
(* C1: at most one worker is between the start and the end of run(), in      *)
(* every reachable state.                                                    *)
C1_OneWorkerExecuting == Cardinality({w \in Workers : InRun(w)}) <= 1

(* C2: whenever no TaskManager method is executing, is_running is True if    *)
(* and only if current_worker is not None.                                   *)
C2_RunningIffWorker == AtRest => (is_running <=> current_worker # None)

(* C3: start_pdf_task or start_image_task called while is_running is True    *)
(* returns False, changes neither is_running nor current_worker, creates and *)
(* starts no worker and emits no notification, whatever the kind of the      *)
(* running task and of the request.                                          *)
C3_BusyRejects ==
    [][(StartStep /\ is_running) =>
          /\ last'.result = FALSE
          /\ UNCHANGED <<is_running, current_worker, workers, queue, stack, mainpc, log>>
      ]_vars

\* An image request has just been rejected while a PDF worker is executing.
C3_Witness ==
    /\ last.op = "start_image_task"
    /\ last.running
    /\ last.result = FALSE
    /\ is_running
    /\ current_worker # None
    /\ workers[current_worker].kind = "pdf"
    /\ InRun(current_worker)

(* C4: in a sequence of requests each issued only after the terminal         *)
(* notification (finished or error) of every earlier task has been           *)
(* delivered, every request returns True.                                    *)
C4_SequentialAccepted ==
    [][(StartStep /\ \A w \in Existing : HasTerminal(w)) => last'.result = TRUE]_vars

(* C5: once a worker's terminal outcome (finished or error) has been relayed *)
(* and the system has gone quiet, the slot is EMPTY: is_running is False,    *)
(* with no call of cancel_current_task needed.                               *)
C5_SlotEmptiesAfterTerminal ==
    (Quiet /\ \A w \in Existing : HasTerminal(w)) => ~is_running

(* C6: no task_finished and no task_error is delivered for a task once       *)
(* cancel_current_task has begun cancelling it.                              *)
C6_NoTerminalAfterCancel ==
    [][\A w \in Workers :
          (DeliversFor(w) /\ NewEntry(w).sig \in {"finished", "error"})
              => ~workers[w]._is_cancelled
      ]_vars

(* C7: cancel_current_task invoked while is_running is True returns with     *)
(* is_running False, and the next start_pdf_task or start_image_task call    *)
(* returns True.                                                             *)
C7_CancelEmptiesSlot ==
    [][/\ (CancelStep /\ is_running /\ mainpc' = "idle") => ~is_running'
       /\ (mainpc = "cancel_wait" /\ mainpc' = "idle") => ~is_running'
       /\ (StartStep /\ last.op = "cancel_current_task" /\ last.running)
             => last'.result = TRUE
      ]_vars

\* The worker whose finished signal the innermost _on_task_finished handles
Handled == stack[Len(stack)]

(* C8: handling worker A's finished signal while a different worker B is     *)
(* installed as current_worker does not set is_running to False, does not    *)
(* wait on B and does not set current_worker to None.                        *)
C8_StaleFinishedHarmless ==
    [][/\ (EntersFinishedHandler /\ current_worker \notin {None, Head(queue).task})
             => is_running' = is_running
       /\ (mainpc # "fin_wait" /\ mainpc' = "fin_wait") => current_worker = Handled
       /\ (mainpc = "fin_wait" /\ mainpc' = "idle" /\ current_worker # Handled)
             => current_worker' = current_worker
      ]_vars

(* C9: when _on_task_finished emits task_finished, the slot is already fully *)
(* EMPTY: is_running is False and current_worker is None.                    *)
C9_EmptyBeforeFinishedEmit ==
    [][EntersFinishedHandler => (~is_running' /\ current_worker' = None)]_vars

\* The k-th notification of a task is progress(n)
IsProgress(s, k, n) == s[k].sig = "progress" /\ s[k].n = n

\* started, progress(10), progress values, then the terminal one last
OrderedPrefix(s) ==
    \A k \in DOMAIN s :
        /\ (k = 1) <=> (s[k].sig = "started")
        /\ (k = 2) => IsProgress(s, 2, 10)
        /\ s[k].sig \in {"finished", "error"} => k = Len(s)
        /\ IsProgress(s, k, 100) => (k > 2 /\ k >= Len(s) - 1)

(* C10 as stated: the notifications of every accepted task are delivered in  *)
(* the order started, progress(10), intermediate progress values,            *)
(* progress(100), then finished or error, and none after the terminal one.   *)
C10_OrderWithFinalProgress ==
    \A w \in Workers :
        /\ OrderedPrefix(log[w])
        /\ \A k \in DOMAIN log[w] :
              log[w][k].sig \in {"finished", "error"}
                  => (k > 2 /\ IsProgress(log[w], k - 1, 100))

(* C10 amended: the notifications of every accepted task are delivered in    *)
(* the order started, progress(10), intermediate progress values, then       *)
(* either progress(100) followed by finished, or error with no progress(100) *)
(* before it; no notification of the task is delivered after the terminal    *)
(* one.                                                                      *)
C10_Order ==
    \A w \in Workers :
        /\ OrderedPrefix(log[w])
        /\ \A k \in DOMAIN log[w] :
              /\ log[w][k].sig = "finished"
                    => (k > 2 /\ IsProgress(log[w], k - 1, 100))
              /\ log[w][k].sig = "error"
                    => (k > 2 /\ log[w][k - 1].sig = "progress"
                              /\ log[w][k - 1].n < 100)

\* A batch task has delivered started, progress(10), an intermediate value
\* and then error.
C10_Witness ==
    \E w \in Workers :
        /\ Len(log[w]) >= 4
        /\ log[w][Len(log[w])].sig = "error"
        /\ log[w][Len(log[w]) - 1].n > 10

(* C11: every finished signal a worker emits, success or failure, comes      *)
(* directly after a progress(100) signal of the same worker, with no other   *)
(* signal of that worker between the two.                                    *)
C11_FinalProgressBeforeFinished ==
    \A w \in Workers :
        \A k \in DOMAIN Emitted(w) :
            Emitted(w)[k].sig = "finished"
                => (k > 1 /\ IsProgress(Emitted(w), k - 1, 100))

\* A batch worker has emitted finished(False, ...) after an intermediate
\* progress value, and the signal is still waiting in the event queue.
C11_Witness ==
    \E w \in Workers :
        /\ Len(Emitted(w)) >= 4
        /\ Emitted(w)[Len(Emitted(w))].sig = "finished"
        /\ ~Emitted(w)[Len(Emitted(w))].ok
        /\ queue # <<>>
        /\ queue[Len(queue)].task = w
        /\ queue[Len(queue)].sig = "finished"

(* C12: each worker instance emits at most one terminal signal, counting     *)
(* finished and error together.                                              *)
C12_AtMostOneTerminal ==
    \A w \in Workers : Cardinality(Terminals(Emitted(w))) <= 1

\* Two workers have ended, one having emitted finished and the other error.
C12_Witness ==
    \E v, w \in Workers :
        /\ workers[v].pc = "done"
        /\ workers[w].pc = "done"
        /\ \E k \in Terminals(Emitted(v)) : Emitted(v)[k].sig = "finished"
        /\ \E k \in Terminals(Emitted(w)) : Emitted(w)[k].sig = "error"

(* C13: every accepted task that is never cancelled eventually has a         *)
(* terminal notification, task_finished or task_error, delivered to the      *)
(* observers, and no task ever has two, provided every external call returns *)
(* or raises, threads are scheduled fairly, posted events are processed and  *)
(* observers return.                                                         *)
C13_TerminalDelivered ==
    /\ [](\A w \in Workers : Cardinality(Terminals(log[w])) <= 1)
    /\ \A w \in Workers :
          (workers[w].pc # "none") ~> (HasTerminal(w) \/ workers[w]._is_cancelled)

\* The terminal notification of a never-cancelled task has been delivered
\* although the TaskManager had dropped its reference to the worker before.
C13_Witness ==
    \E w \in Workers :
        /\ HasTerminal(w)
        /\ ~workers[w]._is_cancelled
        /\ workers[w].pc = "done"
        /\ current_worker = None

\* The number of signals of worker w in the event queue
Pending(w) == Len(SelectSeq(queue, LAMBDA s : s.task = w))

(* C14: when cancel_current_task returns from its wait(), the worker it was  *)
(* invoked on has left run(): it has no external call in flight, and a       *)
(* worker that has left run() begins no external call and emits no signal    *)
(* afterwards.                                                               *)
C14_CancelJoinsWorker ==
    [][/\ (mainpc = "cancel_wait" /\ mainpc' = "idle")
             => workers'[current_worker].pc = "done"
       /\ \A w \in Workers :
             workers[w].pc = "done"
                 => /\ workers'[w].pc \in {"done", "none"}
                    /\ workers'[w].calls <= workers[w].calls
                    /\ Pending(w)' <= Pending(w)
      ]_vars

\* cancel_current_task has returned after cancelling a two-file batch whose
\* first per-file call had begun: the worker ended without the second call.
C14_Witness ==
    /\ last.op = "cancel_current_task"
    /\ last.running
    /\ mainpc = "idle"
    /\ ~is_running
    /\ current_worker # None
    /\ workers[current_worker]._is_cancelled
    /\ workers[current_worker].pc = "done"
    /\ workers[current_worker].n = 2
    /\ workers[current_worker].calls = 1

(* C15: cancel_current_task called while is_running is False, whether before *)
(* any task, after a finished task or after an earlier cancel, changes no    *)
(* TaskManager state, calls nothing on any worker, emits no notification and *)
(* does not block.                                                           *)
C15_IdleCancelNoOp ==
    [][(CancelStep /\ ~is_running)
          => UNCHANGED <<is_running, current_worker, workers, queue, stack, mainpc, log>>
      ]_vars

\* cancel_current_task has been called a second time on a task it had
\* already cancelled, with the reference still held.
C15_Witness ==
    /\ last.op = "cancel_current_task"
    /\ ~last.running
    /\ mainpc = "idle"
    /\ current_worker # None
    /\ workers[current_worker]._is_cancelled

(* C16: every call of cancel_current_task returns: the main thread blocked   *)
(* in the wait() of cancel_current_task eventually leaves it, given that     *)
(* each external call returns and the worker thread is scheduled; the wait   *)
(* does not depend on the delivery of the worker's signals.                  *)
C16_CancelReturns == (mainpc = "cancel_wait") ~> (mainpc = "idle")

\* cancel_current_task has returned while signals the cancelled worker had
\* emitted are still waiting for delivery.
C16_Witness ==
    /\ last.op = "cancel_current_task"
    /\ last.running
    /\ mainpc = "idle"
    /\ current_worker # None
    /\ workers[current_worker]._is_cancelled
    /\ Pending(current_worker) >= 2

\* The progress notifications delivered for the task of worker w, in order
ProgressOf(w) == SelectSeq(log[w], LAMBDA s : s.sig = "progress")

\* The task of worker w has delivered task_finished with the given result
FinishedWith(w, ok) ==
    /\ log[w] # <<>>
    /\ log[w][Len(log[w])].sig = "finished"
    /\ log[w][Len(log[w])].ok = ok

\* Worker w runs a batch operation
BatchTask(w) == IsBatch(workers[w].kind, workers[w].operation)

\* Of a successful batch of N files: N + 2 progress values, non-decreasing,
\* the first 10 and the last 100.
BatchProgressShape(w) ==
    LET P == ProgressOf(w) IN
    /\ Len(P) = workers[w].n + 2
    /\ P[1].n = 10
    /\ P[Len(P)].n = 100
    /\ \A k \in 1..(Len(P) - 1) : P[k].n <= P[k + 1].n

(* C17 as stated: for a batch operation on N > 0 files that all succeed,     *)
(* without cancellation, the progress values are non-decreasing, start at    *)
(* 10, end at 100 and have exactly N values in between, each strictly        *)
(* greater than 10 and strictly less than 100.                               *)
C17_IntermediateStrictlyInside ==
    \A w \in Workers :
        (BatchTask(w) /\ workers[w].n > 0 /\ FinishedWith(w, TRUE))
            => /\ BatchProgressShape(w)
               /\ \A k \in 2..(Len(ProgressOf(w)) - 1) :
                     10 < ProgressOf(w)[k].n /\ ProgressOf(w)[k].n < 100

(* C17 amended: for a batch operation on N > 0 files that all succeed,       *)
(* without cancellation, the progress values are non-decreasing, start at    *)
(* 10, end at 100 and have exactly N values in between, each at least 10 and *)
(* at most 90, and strictly greater than 10 when N <= 80.                    *)
C17_ProgressShape ==
    \A w \in Workers :
        (BatchTask(w) /\ workers[w].n > 0 /\ FinishedWith(w, TRUE))
            => /\ BatchProgressShape(w)
               /\ \A k \in 2..(Len(ProgressOf(w)) - 1) :
                     /\ 10 <= ProgressOf(w)[k].n
                     /\ ProgressOf(w)[k].n <= 90
                     /\ workers[w].n <= 80 => 10 < ProgressOf(w)[k].n

\* A batch of more than 80 files has succeeded and its first intermediate
\* progress value was 10.
C17_Witness ==
    \E w \in Workers :
        /\ BatchTask(w)
        /\ workers[w].n > 80
        /\ FinishedWith(w, TRUE)
        /\ ProgressOf(w)[2].n = 10

\* v is an integer nearest to a / b
IsNearest(v, a, b) == 2 * v * b - 2 * a <= b /\ 2 * a - 2 * v * b <= b

(* C18 as stated: the progress value delivered after the j-th successful     *)
(* per-file call of a batch of N files is 10 + round(80 * j / N), rounded to *)
(* the nearest integer.                                                      *)
C18_ProgressRounded ==
    \A w \in Workers :
        BatchTask(w) =>
            \A j \in 1..workers[w].n :
                (j + 1 <= Len(ProgressOf(w)) /\ ProgressOf(w)[j + 1].n < 100)
                    => IsNearest(ProgressOf(w)[j + 1].n - 10, 80 * j, workers[w].n)

(* C18 amended: the progress value delivered after the j-th successful       *)
(* per-file call of a batch of N files is 10 + floor(80 * j / N): the        *)
(* quotient is truncated, not rounded.                                       *)
C18_ProgressTruncated ==
    \A w \in Workers :
        BatchTask(w) =>
            \A j \in 1..workers[w].n :
                (j + 1 <= Len(ProgressOf(w)) /\ ProgressOf(w)[j + 1].n < 100)
                    => /\ (ProgressOf(w)[j + 1].n - 10) * workers[w].n <= 80 * j
                       /\ 80 * j < (ProgressOf(w)[j + 1].n - 9) * workers[w].n

\* The long batch has delivered the progress value of its 40th file, where
\* 80 * j / N has a fractional part above one half.
C18_Witness ==
    \E w \in Workers :
        /\ BatchTask(w)
        /\ workers[w].n = MaxBatch
        /\ Len(ProgressOf(w)) >= 41
        /\ ProgressOf(w)[41].n = 49

(* C19: if, in a batch of N files without cancellation, the per-file call    *)
(* for index k is the first to return failure, then exactly k + 1 per-file   *)
(* calls are made, exactly k intermediate progress values are delivered,     *)
(* the files after k are never attempted, and the terminal notification is   *)
(* finished(False, the operation's failure message).                         *)
C19_FirstFailureStops ==
    \A w \in Workers :
        (BatchTask(w) /\ FinishedWith(w, FALSE))
            => LET k == workers[w].i
                   P == ProgressOf(w) IN
               /\ k < workers[w].n
               /\ workers[w].calls = k + 1
               /\ workers[w].pc \in {"ret", "done"}
               /\ Len(P) = k + 2
               /\ P[1].n = 10
               /\ P[Len(P)].n = 100
               /\ \A m \in 2..(Len(P) - 1) : P[m].n = BatchProgress(m - 2, workers[w].n)
               /\ log[w][Len(log[w])].msg =
                      FailureMessage(workers[w].kind, workers[w].operation)
               /\ Cardinality(Terminals(log[w])) = 1

\* A batch of two files has failed on its second file.
C19_Witness ==
    \E w \in Workers :
        /\ BatchTask(w)
        /\ FinishedWith(w, FALSE)
        /\ workers[w].n = 2
        /\ workers[w].i = 1
        /\ workers[w].calls = 2

\* Worker w runs a single-call operation
SingleTask(w) == IsSingle(workers[w].kind, workers[w].operation)

(* C20: a single-call operation run without cancellation or fault makes      *)
(* exactly one external call and its observers receive exactly started,      *)
(* progress(10), progress(100), finished(result, message), where message is  *)
(* the operation's success message if the call returned true and its failure *)
(* message otherwise; for merge the success message is                       *)
(* "PDFs merged successfully".                                               *)
C20_SingleCallTask ==
    \A w \in Workers :
        \A ok \in BOOLEAN :
            (SingleTask(w) /\ FinishedWith(w, ok))
                => /\ workers[w].calls = 1
                   /\ workers[w].success = ok
                   /\ log[w] =
                         << StartedSig(w, workers[w].operation),
                            ProgressSig(w, 10),
                            ProgressSig(w, 100),
                            FinishedSig(w, ok,
                                IF ok
                                THEN SuccessMessage(workers[w].kind, workers[w].operation)
                                ELSE FailureMessage(workers[w].kind, workers[w].operation)) >>
                   /\ (workers[w].operation = "merge" /\ ok)
                         => log[w][4].msg = "PDFs merged successfully"

\* A convert_to_pages task has finished with failure.
C20_Witness ==
    \E w \in Workers :
        /\ workers[w].operation = "convert_to_pages"
        /\ FinishedWith(w, FALSE)
        /\ workers[w].calls = 1

\* The signals of the given kind among the ones worker w has emitted
EmittedOf(w, sig) == {k \in DOMAIN Emitted(w) : Emitted(w)[k].sig = sig}

\* Worker w's thread leaves position pc of run() in this step
Leaves(w, pc) == workers[w].pc = pc /\ workers'[w].pc # pc

(* C21: when an external call or a parameter lookup raises inside run() and  *)
(* cancellation has not been requested, the worker emits exactly one error   *)
(* signal carrying a diagnostic string and never emits finished for that     *)
(* run.                                                                      *)
C21_FaultBecomesError ==
    [][\A w \in Workers :
          /\ workers[w].pc \in {"except", "emiterr"} => Terminals(Emitted(w)) = {}
          /\ (Leaves(w, "except") /\ ~workers[w]._is_cancelled)
                => workers'[w].pc = "emiterr"
          /\ Leaves(w, "emiterr")
                => /\ workers'[w].pc = "ret"
                   /\ Emitted(w)' = Append(Emitted(w), ErrorSig(w, ErrorMessage(workers[w].kind)))
                   /\ ErrorMessage(workers[w].kind) # ""
          /\ (workers[w].pc \in {"ret", "done"} /\ EmittedOf(w, "error") # {})
                => (Leaves(w, "done")
                    \/ /\ Cardinality(EmittedOf(w, "error")') = 1
                       /\ EmittedOf(w, "finished")' = {})
      ]_vars

\* The second per-file call of a batch raised, the worker was not cancelled
\* and has ended after emitting progress(10), one file's progress and error.
C21_Witness ==
    \E w \in Workers :
        /\ workers[w].pc = "done"
        /\ ~workers[w]._is_cancelled
        /\ workers[w].calls = 2
        /\ Len(Emitted(w)) = 3
        /\ Emitted(w)[3].sig = "error"

(* C22: a fault raised inside run() while cancellation has been requested is *)
(* swallowed: the worker emits neither error nor finished, and the observers *)
(* receive no terminal notification for that task.                           *)
C22_FaultSwallowedAfterCancel ==
    [][\A w \in Workers :
          /\ (Leaves(w, "except") /\ workers[w]._is_cancelled)
                => /\ workers'[w].pc = "ret"
                   /\ Terminals(Emitted(w)') = {}
          /\ (workers[w].pc \in {"ret", "done"} /\ Terminals(Emitted(w)) = {})
                => /\ Terminals(Emitted(w)') = {}
                   /\ ~HasTerminal(w)'
      ]_vars

\* A merge request without output_path was cancelled before its KeyError:
\* the worker has ended having emitted progress(10) and nothing else.
C22_Witness ==
    \E w \in Workers :
        /\ workers[w].operation = "merge"
        /\ workers[w].missing = "output_path"
        /\ workers[w]._is_cancelled
        /\ workers[w].pc = "done"
        /\ Len(Emitted(w)) = 1
        /\ IsProgress(Emitted(w), 1, 10)

\* The worker's class has a branch for its operation
KnownOperation(w) ==
    IsSingle(workers[w].kind, workers[w].operation)
        \/ IsBatch(workers[w].kind, workers[w].operation)

\* run() has returned, or is about to with nothing left to emit
RunOver(w) == workers[w].pc \in {"ret", "done"}

\* The run of worker w emitted progress(10) and then error, and began no
\* external call.
EarlyFault(w) ==
    /\ workers[w].calls = 0
    /\ Emitted(w) = << ProgressSig(w, 10), ErrorSig(w, ErrorMessage(workers[w].kind)) >>

(* C23 as stated: a request whose kwargs lack a key its operation requires   *)
(* is accepted and ends in a fault: the worker emits error after             *)
(* progress(10), before any external call, and never emits finished.         *)
C23_MissingKeyFaults ==
    \A w \in Workers :
        (/\ KnownOperation(w)
         /\ workers[w].missing \in KwargKeys(workers[w].kind, workers[w].operation)
         /\ RunOver(w))
            => EarlyFault(w)

\* The run of worker w cannot avoid the lookup of its missing key: the key
\* is read by subscript, and either once per run or for a first file.
LookupIsReached(w) ==
    /\ workers[w].missing \in SubscriptKeys(workers[w].kind, workers[w].operation)
    /\ BatchTask(w) => (workers[w].missing = "input_files" \/ workers[w].n > 0)

(* C23 amended: a request whose kwargs lack a key that its operation's       *)
(* branch reads by subscript (every key but format, quality_preset and       *)
(* maintain_aspect, which have defaults) is accepted and ends in a fault:    *)
(* error after progress(10), before any external call, and never finished -- *)
(* for a key a batch reads per file, provided input_files is not empty.      *)
C23_MissingSubscriptKeyFaults ==
    \A w \in Workers :
        (KnownOperation(w) /\ LookupIsReached(w) /\ RunOver(w)) => EarlyFault(w)

\* A split request without output_dir has ended in error before its first
\* per-file call.
C23_Witness ==
    \E w \in Workers :
        /\ workers[w].operation = "split"
        /\ workers[w].missing = "output_dir"
        /\ workers[w].n = 2
        /\ workers[w].pc = "done"
        /\ EarlyFault(w)
        /\ HasTerminal(w)

\* An image batch with fewer output names than input files and no kwarg
\* missing, whose run is over after every file that has an output name
\* succeeded.
ShortOutputsRun(w) ==
    /\ BatchTask(w)
    /\ workers[w].kind = "image"
    /\ workers[w].missing = "none"
    /\ workers[w].nout < workers[w].n
    /\ workers[w].i = workers[w].nout
    /\ RunOver(w)

(* C24 as stated: a batch image request whose output_files list is shorter   *)
(* than its input_files list is reported through finished(False, message)    *)
(* and never through the error notification.                                 *)
C24_ShortOutputsFail ==
    \A w \in Workers :
        ShortOutputsRun(w)
            => /\ EmittedOf(w, "error") = {}
               /\ \E k \in EmittedOf(w, "finished") : ~Emitted(w)[k].ok

(* C24 amended: a batch image request whose output_files list has L names    *)
(* for N > L input files is not validated: the worker processes files        *)
(* 0..L-1 and, when they all succeed, raises at index L; the task is         *)
(* reported through error after L intermediate progress values, never        *)
(* through finished.                                                         *)
C24_ShortOutputsFault ==
    \A w \in Workers :
        ShortOutputsRun(w)
            => /\ workers[w].calls = workers[w].nout
               /\ Len(Emitted(w)) = workers[w].nout + 2
               /\ Emitted(w)[Len(Emitted(w))] = ErrorSig(w, ErrorMessage("image"))
               /\ EmittedOf(w, "finished") = {}

\* A resize of two files with one output name has processed the first file
\* and ended in error.
C24_Witness ==
    \E w \in Workers :
        /\ ShortOutputsRun(w)
        /\ workers[w].operation = "resize"
        /\ workers[w].n = 2
        /\ workers[w].nout = 1
        /\ workers[w].calls = 1
        /\ workers[w].pc = "done"
        /\ log[w] # <<>>
        /\ log[w][Len(log[w])].sig = "error"

\* The operations each worker class has a branch for
Catalog ==
    ({"pdf"} \X (PdfSingleOps \cup PdfBatchOps))
        \cup ({"image"} \X (ImageSingleOps \cup ImageBatchOps))

\* Every failure and fault notification of the task of worker w has a text
SaysWhy(w) ==
    \A k \in DOMAIN log[w] :
        /\ (log[w][k].sig = "finished" /\ ~log[w][k].ok) => log[w][k].msg # ""
        /\ log[w][k].sig = "error" => log[w][k].msg # ""

\* For each operation the failure message differs from the success message
FailureDiffers ==
    \A c \in Catalog : FailureMessage(c[1], c[2]) # SuccessMessage(c[1], c[2])

(* C29 as stated: every finished(False, message) and every error(diagnostic) *)
(* that can be delivered carries a non-empty message, and for each operation *)
(* the failure message differs from the success message.                     *)
C29_EveryFailureSaysWhy == FailureDiffers /\ \A w \in Workers : SaysWhy(w)

(* C29 amended: for every request whose operation the worker class has a     *)
(* branch for, every finished(False, message) and every error(diagnostic)    *)
(* delivered carries a non-empty message, and for each operation the failure *)
(* message differs from the success message.                                 *)
C29_KnownFailureSaysWhy ==
    FailureDiffers /\ \A w \in Workers : KnownOperation(w) => SaysWhy(w)

\* An apply_filter task has delivered finished(False, ...) with its failure
\* message.
C29_Witness ==
    \E w \in Workers :
        /\ workers[w].operation = "apply_filter"
        /\ FinishedWith(w, FALSE)
        /\ log[w][Len(log[w])].msg = "Failed to apply filter"

\* This step is an emission by a worker: one signal joins the event queue
\* and the observers see nothing.
EmissionStep ==
    /\ log' = log
    /\ Len(queue') = Len(queue) + 1
    /\ SubSeq(queue', 1, Len(queue)) = queue
    /\ queue'[Len(queue')].sig \in {"progress", "finished", "error"}

\* This step relays the oldest pending signal, unaltered, to the observers
\* of its task and to nobody else.
RelayStep ==
    /\ queue # <<>>
    /\ queue' = Tail(queue)
    /\ log' = [log EXCEPT ![Head(queue).task] = Append(@, Head(queue))]

\* This step accepts a request: task_started is emitted for a new task
AcceptStep ==
    /\ queue' = queue
    /\ \E w \in Workers :
          /\ log[w] = <<>>
          /\ log' = [log EXCEPT ![w] = <<StartedSig(w, workers'[w].operation)>>]

\* This step forgets a task whose worker object is released
ForgetStep ==
    /\ queue' = queue
    /\ \E w \in Workers :
          /\ Unreferenced(w)
          /\ log' = [log EXCEPT ![w] = <<>>]

(* C25: the progress, finished and error notifications the TaskManager emits *)
(* for a task are the signals its worker emitted, value for value and in the *)
(* same order: each is relayed once, unaltered, in emission order, none is   *)
(* added, and every emitted signal is eventually relayed.                    *)
C25_RelayOneToOne ==
    /\ [][EmissionStep \/ RelayStep \/ AcceptStep \/ ForgetStep
             \/ (queue' = queue /\ log' = log)]_vars
    /\ \A w \in Workers : (Pending(w) > 0) ~> (Pending(w) = 0)

\* Every signal of a one-file batch that succeeded has been relayed:
\* started, progress(10), the file's progress, progress(100), finished.
C25_Witness ==
    \E w \in Workers :
        /\ BatchTask(w)
        /\ workers[w].pc = "done"
        /\ Pending(w) = 0
        /\ Len(log[w]) = 5
        /\ FinishedWith(w, TRUE)

\* The pages a sequence names
Mentioned(page_sequence) == {page_sequence[k] : k \in DOMAIN page_sequence}

\* Worker w runs the given PDF operation on an input file that exists
CoreTask(w, op) ==
    /\ workers[w].kind = "pdf"
    /\ workers[w].operation = op
    /\ workers[w].ext.exists

\* Some index of the sequence is below 1 or above the page count
HasInvalidIndex(page_sequence, total_pages) ==
    \E k \in DOMAIN page_sequence :
        page_sequence[k] < 1 \/ page_sequence[k] > total_pages

\* The run of worker w emitted progress(10), progress(100) and
\* finished(False, msg), and nothing else
OrdinaryFailure(w, msg) ==
    Emitted(w) = << ProgressSig(w, 10), ProgressSig(w, 100), FinishedSig(w, FALSE, msg) >>

(* C26: reordering an M-page document with a sequence S of valid indices     *)
(* writes an output whose page order is S followed by every page S does not  *)
(* mention, in original order.                                               *)
C26_ShuffleAppendsUnmentioned ==
    \A w \in Workers :
        (/\ CoreTask(w, "shuffle")
         /\ ~HasInvalidIndex(workers[w].ext.page_sequence, workers[w].ext.total_pages)
         /\ RunOver(w))
            => /\ workers[w].ext.out.written
               /\ workers[w].ext.out.order =
                      workers[w].ext.page_sequence
                          \o SortedSeq((1..workers[w].ext.total_pages)
                                           \ Mentioned(workers[w].ext.page_sequence))

(* C27: a custom merge whose page range has a non-numeric part or a range    *)
(* with a missing bound returns False, writes no output and ends with        *)
(* finished(False, "Failed to perform custom merge").                        *)
C27_BadRangeFailsMerge ==
    \A w \in Workers :
        (/\ CoreTask(w, "custom_merge")
         /\ ~IsAll(workers[w].ext.pages)
         /\ \E k \in DOMAIN workers[w].ext.pages :
                workers[w].ext.pages[k].t \in {"word", "open", "all"}
         /\ RunOver(w))
            => /\ ~workers[w].success
               /\ ~workers[w].ext.out.written
               /\ OrdinaryFailure(w, "Failed to perform custom merge")

(* C28: a reorder request with an index below 1 or above the page count      *)
(* makes shuffle_pages return False with no output written, and the task     *)
(* ends with progress(100) and finished(False, "Failed to shuffle pages"),   *)
(* never with error.                                                         *)
C28_InvalidIndexFailsShuffle ==
    \A w \in Workers :
        (/\ CoreTask(w, "shuffle")
         /\ HasInvalidIndex(workers[w].ext.page_sequence, workers[w].ext.total_pages))
            => /\ EmittedOf(w, "error") = {}
               /\ ~workers[w].ext.out.written
               /\ RunOver(w) => /\ ~workers[w].success
                                /\ workers[w].ext.out = NoOutput
                                /\ OrdinaryFailure(w, "Failed to shuffle pages")

\* A request with index 0 and one with an index above the page count have
\* each ended as a failure delivered to the observers
C28_Witness ==
    \E w \in Workers :
        /\ CoreTask(w, "shuffle")
        /\ workers[w].ext.page_sequence \in {<<0>>, <<1, MaxPages + 1>>}
        /\ workers[w].pc = "done"
        /\ log[w] = << StartedSig(w, "shuffle"), ProgressSig(w, 10), ProgressSig(w, 100),
                       FinishedSig(w, FALSE, "Failed to shuffle pages") >>

(* C30: convert_to_pages on a host other than macOS returns False without    *)
(* raising; the task emits progress(100) and then                            *)
(* finished(False, "Failed to convert to Pages"), and never error.           *)
C30_UnsupportedHostFails ==
    \A w \in Workers :
        (/\ CoreTask(w, "convert_to_pages")
         /\ workers[w].ext.platform # "Darwin")
            => /\ EmittedOf(w, "error") = {}
               /\ RunOver(w) => /\ ~workers[w].success
                                /\ OrdinaryFailure(w, "Failed to convert to Pages")
                                /\ (\A k \in DOMAIN queue : queue[k].task # w)
                                       => log[w] = << StartedSig(w, "convert_to_pages") >>
                                                       \o Emitted(w)

C30_Witness ==
    \E w \in Workers :
        /\ CoreTask(w, "convert_to_pages")
        /\ workers[w].ext.platform = "Linux"
        /\ workers[w].pc = "done"
        /\ log[w] = << StartedSig(w, "convert_to_pages"), ProgressSig(w, 10),
                       ProgressSig(w, 100),
                       FinishedSig(w, FALSE, "Failed to convert to Pages") >>

\* Worker w's thread reads its cancellation flag as true in this step: at the
\* start of run(), before a per-file call, or before the terminal emission
ObservesCancel(w) ==
    /\ workers[w]._is_cancelled
    /\ \/ workers[w].pc \in {"start", "final"}
       \/ workers[w].pc = "loop" /\ workers[w].i < workers[w].n
    /\ workers'[w].pc # workers[w].pc

\* Worker w's thread has left the body of run() by a return
Returned(w) == workers[w].pc \in {"ret", "done"}

\* Worker w, the same object before and after this step, begins no external
\* call and emits no signal in it
SilentStep(w) ==
    /\ workers'[w].calls = workers[w].calls
    /\ Emitted(w)' = Emitted(w)

(* C31: a worker that reads its cancellation flag as true at a checkpoint     *)
(* returns from run() there, and from then on begins no external call and    *)
(* emits no signal; read as true at the start of run(), the worker has       *)
(* emitted nothing at all.                                                   *)
C31_ObservedCancelSilences ==
    [][\A w \in Workers :
          /\ ObservesCancel(w)
                => /\ workers'[w].pc = "ret"
                   /\ SilentStep(w)
                   /\ workers[w].pc = "start" => Emitted(w)' = <<>>
          /\ (Returned(w) /\ workers'[w].pc # "none")
                => Returned(w)' /\ SilentStep(w)]_vars

\* A worker cancelled before its run() began has finished: no call, no signal
C31_Witness ==
    \E w \in Workers :
        /\ workers[w].pc = "done"
        /\ workers[w]._is_cancelled
        /\ workers[w].calls = 0
        /\ Emitted(w) = <<>>

\* cancel() of worker w returns in this step: the flag becomes true
CancelSet(w) == ~workers[w]._is_cancelled /\ workers'[w]._is_cancelled

(* C32: a cancellation requested while the one external call of a            *)
(* single-call operation is in flight changes nothing but the flag; the call *)
(* ends by itself (returning or raising), and the worker then returns from   *)
(* run() having emitted progress(10) only: no progress(100), no finished.    *)
C32_CallInFlightNotInterrupted ==
    [][\A w \in Workers :
          SingleTask(w) =>
             /\ (workers[w].pc = "incall" /\ CancelSet(w))
                   => workers'[w] = [workers[w] EXCEPT !._is_cancelled = TRUE]
             /\ (/\ workers[w].pc \in {"incall", "final", "except"}
                 /\ workers[w].calls = 1
                 /\ workers[w]._is_cancelled)
                   => /\ Emitted(w) = << ProgressSig(w, 10) >>
                      /\ SilentStep(w)
                      /\ workers[w].pc = "incall"
                            => workers'[w].pc \in {"incall", "final", "except"}
                      /\ workers[w].pc # "incall"
                            => workers'[w].pc \in {workers[w].pc, "ret"}
             /\ (Returned(w) /\ workers'[w].pc # "none")
                   => Returned(w)' /\ Emitted(w)' = Emitted(w)]_vars

\* A cancelled single-call worker has finished after its call returned True,
\* with progress(10) its only signal
C32_Witness ==
    \E w \in Workers :
        /\ SingleTask(w)
        /\ workers[w].pc = "done"
        /\ workers[w]._is_cancelled
        /\ workers[w].calls = 1
        /\ workers[w].success
        /\ Emitted(w) = << ProgressSig(w, 10) >>

\* The progress values worker w has emitted so far, in emission order
EmittedProgress(w) == SelectSeq(Emitted(w), LAMBDA s : s.sig = "progress")

(* C33: in every run, however it ends and whenever it is cancelled, each     *)
(* progress value the worker emits lies in 0..100 and no value is smaller    *)
(* than the one emitted before it.                                           *)
C33_ProgressMonotone ==
    \A w \in Workers :
        LET P == EmittedProgress(w) IN
        \A k \in DOMAIN P :
            /\ 0 <= P[k].n /\ P[k].n <= 100
            /\ k > 1 => P[k - 1].n <= P[k].n

\* A batch of MaxBatch files was cancelled after its second file: the worker
\* emitted 10, 10, 11 and returned
C33_Witness ==
    \E w \in Workers :
        /\ workers[w].n = MaxBatch
        /\ workers[w]._is_cancelled
        /\ workers[w].pc = "done"
        /\ Emitted(w) = << ProgressSig(w, 10), ProgressSig(w, 10), ProgressSig(w, 11) >>

\* Worker w has rendered a document with one of the Caller's presets
Rendered(w) ==
    /\ CoreTask(w, "pdf_to_images")
    /\ workers[w].ext.quality_preset \in CallerPresets
    /\ workers[w].ext.out.written

\* The resolution a document that exists is rendered at with the preset
Resolution(quality_preset) ==
    pdf_to_images([NoExt EXCEPT !.quality_preset = quality_preset, !.exists = TRUE,
                                !.total_pages = 1]).out.dpi

(* C34: the three quality presets the Caller can send with a pdf_to_images   *)
(* request yield three distinct resolutions, and the archival preset yields  *)
(* the highest: the resolution a task rendered its document at differs from  *)
(* the resolution of each other preset, and exceeds it if the task's preset  *)
(* is Archive.                                                               *)
C34_PresetsDistinctTiers ==
    \A w \in Workers :
        Rendered(w) =>
            \A other \in CallerPresets \ {workers[w].ext.quality_preset} :
                /\ workers[w].ext.out.dpi # Resolution(other)
                /\ workers[w].ext.quality_preset = "Archive"
                      => workers[w].ext.out.dpi > Resolution(other)

(* C35: once cancel_current_task has returned for a task, no progress        *)
(* notification of that task's worker is delivered to the observers.         *)
(* (Notifications are delivered only while the main thread is in no wait(),  *)
(* so a worker whose flag is set at a delivery has had its cancel return.)   *)
C35_NoProgressAfterCancel ==
    [][\A w \in Workers :
          (DeliversFor(w) /\ NewEntry(w).sig = "progress")
              => ~(workers[w]._is_cancelled /\ mainpc = "idle")
      ]_vars

\* Worker w, the same object before and after, begins an external call in
\* this step
BeginsCall(w) == workers'[w].pc # "none" /\ workers'[w].calls > workers[w].calls

(* C36: after cancel() has returned, a batch worker begins at most one       *)
(* further per-file call, the one whose flag check had already passed: with  *)
(* the flag set, a call begins only from the position after a passed check,  *)
(* one call per step, and the worker never gets to that position again.      *)
C36_AtMostOneCallAfterCancel ==
    [][\A w \in Workers :
          (BatchTask(w) /\ workers[w]._is_cancelled /\ workers'[w].pc # "none")
              => /\ BeginsCall(w)
                    => /\ workers[w].pc = "call"
                       /\ workers'[w].calls = workers[w].calls + 1
                       /\ workers'[w].pc = "incall"
                 /\ workers'[w].pc = "call" => workers[w].pc = "call"
                 /\ workers[w].pc = "loop"
                    => workers'[w].pc \in {"loop", "ret", "final"}
      ]_vars

\* A batch of MaxFiles files, cancelled, has finished after one call
C36_Witness ==
    \E w \in Workers :
        /\ BatchTask(w)
        /\ workers[w].n = MaxFiles
        /\ workers[w]._is_cancelled
        /\ workers[w].pc = "done"
        /\ workers[w].calls = 1
        /\ Emitted(w) = << ProgressSig(w, 10), ProgressSig(w, BatchProgress(0, MaxFiles)) >>

\* Worker w runs a batch operation on an empty list of input files
EmptyBatch(w) ==
    /\ BatchTask(w)
    /\ workers[w].n = 0
    /\ workers[w].missing # "input_files"

(* C37: a batch operation given an empty list of input files makes no        *)
(* external call and reports success: the worker emits progress(10),         *)
(* progress(100) and finished(True, the operation's success message), no     *)
(* value in between, and the observers receive exactly these after           *)
(* task_started.                                                             *)
C37_EmptyBatchSucceeds ==
    \A w \in Workers :
        EmptyBatch(w) =>
            /\ workers[w].calls = 0
            /\ EmittedOf(w, "error") = {}
            /\ RunOver(w) =>
                  /\ Emitted(w) =
                        << ProgressSig(w, 10), ProgressSig(w, 100),
                           FinishedSig(w, TRUE,
                                       SuccessMessage(workers[w].kind, workers[w].operation)) >>
                  /\ (\A k \in DOMAIN queue : queue[k].task # w)
                        => log[w] = << StartedSig(w, workers[w].operation) >> \o Emitted(w)

\* The observers of a resize of no files have received its four notifications
C37_Witness ==
    \E w \in Workers :
        /\ EmptyBatch(w)
        /\ workers[w].operation = "resize"
        /\ workers[w].pc = "done"
        /\ log[w] = << StartedSig(w, "resize"), ProgressSig(w, 10), ProgressSig(w, 100),
                       FinishedSig(w, TRUE, "Images resized successfully") >>

\* This step is a start_pdf_task or start_image_task call that returns True
AcceptedStart == StartStep /\ last'.result

(* C38: every accepted request runs on a worker object created for it, not   *)
(* yet started and with its cancellation flag false, and a worker's flag     *)
(* becomes true only in a cancel_current_task call made while that worker is *)
(* the current one of a running task: a cancellation never reaches the task  *)
(* requested after it.                                                       *)
C38_CancelDoesNotLeak ==
    [][/\ AcceptedStart
            => /\ current_worker' # None
               /\ current_worker' # current_worker
               /\ workers[current_worker'].pc = "none"
               /\ workers'[current_worker'].pc = "start"
               /\ ~workers'[current_worker']._is_cancelled
               /\ \A v \in Workers \ {current_worker'} : workers'[v] = workers[v]
       /\ \A w \in Workers :
             CancelSet(w) => /\ CancelStep
                             /\ w = current_worker
                             /\ is_running
                             /\ workers[w].pc # "none"
      ]_vars

\* A task requested after a cancellation has emitted finished, its flag
\* false, while the cancelled worker's last signal is still to be delivered
C38_Witness ==
    \E w, v \in Workers :
        /\ w # v
        /\ workers[v].pc = "done"
        /\ workers[v]._is_cancelled
        /\ current_worker = w
        /\ ~workers[w]._is_cancelled
        /\ EmittedOf(w, "finished") # {}

(* C39: for every page range string and every total_pages >= 0 the list      *)
(* _parse_page_range returns is strictly ascending and every element lies in *)
(* 1..total_pages.                                                           *)
C39_ParsedPagesInRange ==
    \A w \in Workers :
        (CoreTask(w, "custom_merge") /\ RunOver(w)) =>
            LET P == workers[w].ext.out.parsed IN
            \A k \in DOMAIN P :
                /\ 1 <= P[k] /\ P[k] <= workers[w].ext.total_pages
                /\ k > 1 => P[k - 1] < P[k]

====
